---- MODULE Spec2Model ----
(***************************************************************************)
(* The MCP Universal Runtime bridge (class MCPBridge), in its two          *)
(* variants: the MCP-HTTP compliant bridge (src/Dockerfile lines 44-628)   *)
(* and the simple bridge (src/Dockerfile lines 629-1037).                  *)
(*                                                                         *)
(* Node runs every callback to completion, so each action below is one     *)
(* callback of the source together with the promise continuations it       *)
(* releases: the 'data' handler of the child's stdout, a timer, the        *)
(* http.createServer callback, the 'end' handler of a POST body, the       *)
(* 'exit' handler of the child, a signal handler. What a callback wrote    *)
(* (to the child, to the HTTP client) and which promise it settled is      *)
(* visible in the state it leaves; the step Return, the callback handing   *)
(* control back to the event loop, forgets it before the next callback.    *)
(***************************************************************************)
EXTENDS Integers, Sequences, FiniteSets, TLC

\* ------------------------------------------------------------------ bounds

\* Request ids the bridge may allocate: 1 .. MaxRequestId.
MaxRequestId == 3
\* Streaming connections open at the same time.
MaxConnections == 1
\* The same where the streams themselves are examined (SpecStreams).
MaxStreams == MaxConnections + 1

\* ------------------------------------------------------- values and inputs

\* A JSON-RPC message without an id field (message.id === undefined).
NoId == -1
\* "id": null in a response envelope.
NullId == -2
\* No Mcp-Session-Id header (req.headers['mcp-session-id'] === undefined).
NoSession == 0
\* A session id no handshake ever issued.
Bogus == 99
\* mcpProcess.kill('SIGTERM'), recorded with what is written to the child.
SIGTERM == -15

Variants == {"compliant", "simple"}

\* Origin request headers: absent, loopback, a foreign host.
Origins == {"", "http://localhost:3000", "https://evil.example"}
\* MCP-Protocol-Version request headers.
Versions == {"", "2025-06-18", "2025-03-26", "2024-11-05"}
\* Accept request headers, as the list of media types they name.
Accepts ==
  { <<>>, <<"application/json">>, <<"text/event-stream">>,
    <<"application/json", "text/event-stream">> }
HttpMethods == {"GET", "POST", "DELETE", "OPTIONS", "PUT"}
\* url.pathname as its non-empty segments (path.split('/').filter(p => p)).
Paths ==
  { <<"health">>, <<"mcp">>, <<"sse">>, <<"capabilities">>, <<"other">>,
    <<"api", "mcp">>, <<"api", "sse">>, <<"api", "health">> }

\* Bodies of a POST: text that JSON.parse rejects, or one JSON-RPC message.
\* method "" is a message without a method; params "absent" is a message
\* without params (or with params null). The messages sent: an initialize
\* with and without params, a tools/list call with every kind of id, and a
\* message with neither method nor id.
ClientId == 7
ClientIds == {NoId, 0, ClientId}
Message(method, id, params) == [method |-> method, id |-> id, params |-> params]
Messages ==
  { Message("initialize", ClientId, params) : params \in {"absent", "object"} }
  \cup { Message("tools/list", id, "object") : id \in ClientIds }
  \cup { Message("", NoId, "absent") }
Malformed == Message("", NoId, "malformed")
\* A request without a body (GET, DELETE).
NoBody == Message("", NoId, "none")
Bodies == Messages \cup {Malformed, NoBody}

\* Lines the child writes to its stdout that parse as JSON: an id (0 stands
\* for a line without a usable id), and an error object, a result carrying
\* capabilities, or a result without them.
ChildLines == [id : 0..MaxRequestId, kind : {"error", "caps", "result"}]

\* ---------------------------------------------------------- pure helpers

Includes(list, x) == \E i \in 1..Len(list) : list[i] = x

\* validateAcceptHeader(acceptHeader, required): false for a missing header,
\* else every required type is among the listed ones.
validateAcceptHeader(acceptHeader, required) ==
  /\ acceptHeader # <<>>
  /\ \A type \in required : Includes(acceptHeader, type)

\* validateProtocolVersion(versionHeader): the default for a missing header,
\* the header itself when supported, else null.
\* A list of supported versions that still names the 2024 revision.
supportedVersionsWithLegacy == {"2025-06-18", "2025-03-26", "2024-11-05"}
supportedVersions == {"2025-06-18", "2025-03-26"}
validateProtocolVersion(versionHeader) ==
  IF versionHeader = "" THEN "2025-03-26"
  ELSE IF versionHeader \in supportedVersions THEN versionHeader
  ELSE "null"

\* isAllowedOrigin(origin): the allow-list patterns, on the origins of Origins
\* (loopback at any port matches, a foreign host does not).
isAllowedOrigin(origin) == origin \in {"http://localhost:3000"}

\* Path prefix stripping: with two segments or more, a last segment that is
\* one of `names` becomes the whole path.
NormalizePath(pathParts, names) ==
  IF Len(pathParts) >= 2 /\ pathParts[Len(pathParts)] \in names
  THEN <<pathParts[Len(pathParts)]>>
  ELSE pathParts

\* JavaScript truthiness of message.id / response.id: undefined and 0 are falsy.
Truthy(id) == id # NoId /\ id # 0

\* ------------------------------------------------------------------ state

VARIABLES
  variant,          \* which bridge runs
  phase,            \* "constructed", "starting", "listening", "exited"
  mcpProcess,       \* this.mcpProcess is not null
  stdinWritable,    \* the child's stdin.writable
  requestId,        \* this.requestId
  pendingRequests,  \* keys of this.pendingRequests
  callers,          \* per allocated id: the promise and who awaits it
  timers,           \* ids whose setTimeout has not fired yet
  isInitialized,    \* this.isInitialized
  mcpCapabilities,  \* this.mcpCapabilities: "null" or the stored result
  sessions,         \* keys of this.sessions
  nextSession,      \* session ids issued so far are 1 .. nextSession-1
  sseConnections,   \* keys of this.sseConnections
  keepAlive,        \* connections whose setInterval is running
  written,          \* ids of the lines the last callback wrote to the child
  settled,          \* the promise the last callback resolved or rejected
  lastRequest,      \* the HTTP request the last callback received, if any
  lastHttp,         \* the HTTP response the last callback wrote, if any
  frame,            \* the frame the last callback wrote to a stream, if any
  stream,           \* the bytes the child writes to its stdout, all of them
  unread,           \* those of them no 'data' event has delivered yet
  buffer,           \* `buffer` of the stdout handler: the incomplete line
  dispatched        \* the messages given to handleMCPResponse, in order

vars ==
  << variant, phase, mcpProcess, stdinWritable, requestId, pendingRequests,
     callers, timers, isInitialized, mcpCapabilities, sessions, nextSession,
     sseConnections, keepAlive, written, settled, lastRequest, lastHttp,
     frame, stream, unread, buffer, dispatched >>

childVars == << mcpProcess, stdinWritable >>
stdoutVars == << stream, unread, buffer, dispatched >>
sseVars == << sseConnections, keepAlive >>
sessionVars == << sessions, nextSession >>

Ids == 1..MaxRequestId
SessionHeaders == {NoSession, Bogus} \cup 1..MaxRequestId

\* A promise nobody created yet.
NoCaller == [kind |-> "none", state |-> "none", id |-> NoId, params |-> "absent"]
\* A promise that was resolved or rejected: later calls of its resolve and
\* reject do nothing.
Settled == [kind |-> "none", state |-> "settled", id |-> NoId, params |-> "absent"]
\* A pending promise with what its continuation reads of the client's
\* message: the id it echoes and, for an initialize, message.params.
Awaiting(kind, message) ==
  [ kind |-> kind, state |-> "pending", id |-> message.id,
    params |-> IF kind = "initialize" THEN message.params ELSE "absent" ]

\* An HTTP response: status line, Mcp-Session-Id header, and of the JSON body
\* the envelope's id, its result and its error (code and message).
Response(status, code, id, session, result, error) ==
  [ status |-> status, code |-> code, id |-> id, session |-> session,
    result |-> result, error |-> error ]
NoResponse == Response(0, 0, NoId, NoSession, "", "")

\* resolve(value) or reject(new Error(value)) of the promise of `id`.
Settlement(id, ok, value) == [id |-> id, ok |-> ok, value |-> value]
NoSettlement == Settlement(0, FALSE, "")
\* Of a request: the method, the path, the headers, the body.
Received(req, body) ==
  [ method |-> req.method, path |-> req.path, origin |-> req.origin,
    version |-> req.version, accept |-> req.accept, session |-> req.session,
    body |-> body ]
NoRequest ==
  [ method |-> "", path |-> <<>>, origin |-> "", version |-> "", accept |-> <<>>,
    session |-> NoSession, body |-> NoBody ]
\* A frame written to the open stream of a connection.
Frame(connection, kind) == [connection |-> connection, kind |-> kind]
NoFrame == Frame(0, "")

\* The fields the constructor sets.
Constructed ==
  /\ variant \in Variants
  /\ phase = "constructed"
  /\ mcpProcess = FALSE
  /\ stdinWritable = FALSE
  /\ requestId = 1
  /\ pendingRequests = {}
  /\ callers = [i \in Ids |-> NoCaller]
  /\ timers = {}
  /\ isInitialized = FALSE
  /\ mcpCapabilities = "null"
  /\ sessions = {}
  /\ nextSession = 1
  /\ sseConnections = {}
  /\ keepAlive = {}
  /\ written = <<>>
  /\ settled = NoSettlement
  /\ lastRequest = NoRequest
  /\ lastHttp = NoResponse
  /\ frame = NoFrame

\* The bridge as constructed; the child's output is looked at line by line
\* (StdoutData), its bytes are the subject of SpecFraming.
Init ==
  /\ Constructed
  /\ stream = <<>>
  /\ unread = <<>>
  /\ buffer = <<>>
  /\ dispatched = <<>>

\* The event loop is between two callbacks.
Idle ==
  /\ written = <<>>
  /\ settled = NoSettlement
  /\ lastRequest = NoRequest
  /\ lastHttp = NoResponse
  /\ frame = NoFrame

\* process.exit() was not called and start() was: callbacks still run.
Running == Idle /\ phase \in {"starting", "listening"}

\* ------------------------------------------------------- request correlator

\* sendToMCP's test: the process is there and its stdin is writable.
ProcessAvailable == mcpProcess /\ stdinWritable

\* mcpProcess.stdin.write(JSON.stringify(message) + '\n'): the line's id
\* (NoId for a message without one).
Write(id) == written' = <<id>>
NoWrite == written' = <<>>
NoReply == lastHttp' = NoResponse
NoSettle == settled' = NoSettlement
Reply(response) == lastHttp' = response

\* process.exit(): timers, intervals and promises go with the process.
Exit ==
  /\ phase' = "exited"
  /\ callers' = [i \in Ids |-> NoCaller]
  /\ timers' = {}
  /\ keepAlive' = {}

\* A generator that would hand out the least id not in use at the moment.
LeastUnusedSessionId ==
  CHOOSE s \in 1..nextSession : s \notin sessions /\ \A t \in 1..(s - 1) : t \in sessions

\* generateSessionId(): randomUUID() gives an id no earlier call gave.
generateSessionId == nextSession

\* The continuation of `await proxyToMCP(...)` / `await initializeMCP()` that
\* runs when the promise of `id` is resolved (ok) or rejected: a promise
\* settled before ignores the call.
\*   startup:    start() goes on to startHTTPServer, or to process.exit(1)
\*   initialize: handleInitializeRequest, its try and its catch
\*   request:    handleMCPPost's try and catch, handleMCP's try and catch
\* `armed` are the timers left after the calling callback.
Continue(id, ok, result, error, armed) ==
  LET c == callers[id] IN
  IF c.state # "pending"
  THEN /\ UNCHANGED << callers, phase, sessions, nextSession, keepAlive >>
       /\ timers' = armed
       /\ NoReply
       /\ NoSettle
  ELSE
    /\ settled' = Settlement(id, ok, IF ok THEN result ELSE error)
    /\ CASE c.kind = "startup" ->
           /\ IF ok
              THEN /\ phase' = "listening"
                   /\ callers' = [callers EXCEPT ![id] = Settled]
                   /\ timers' = armed
                   /\ UNCHANGED keepAlive
              ELSE Exit
           /\ NoReply
           /\ UNCHANGED << sessions, nextSession >>
      [] c.kind = "initialize" ->
           /\ callers' = [callers EXCEPT ![id] = Settled]
           /\ timers' = armed
           /\ UNCHANGED << phase, keepAlive >>
           /\ IF ok /\ c.params = "object"
              THEN /\ sessions' = sessions \cup {generateSessionId}
                   /\ nextSession' = nextSession + 1
                   /\ Reply(Response(200, 0, c.id, generateSessionId, result, ""))
              ELSE /\ UNCHANGED << sessions, nextSession >>
                   /\ Reply(Response(500, -32603, c.id, NoSession, "",
                                     IF ok THEN "TypeError" ELSE error))
      [] OTHER ->
           /\ callers' = [callers EXCEPT ![id] = Settled]
           /\ timers' = armed
           /\ UNCHANGED << phase, keepAlive, sessions, nextSession >>
           /\ Reply(IF ok THEN Response(200, 0, c.id, NoSession, result, "")
                    ELSE IF variant = "compliant"
                    THEN Response(400, -32700, NullId, NoSession, "", "Parse error")
                    ELSE Response(500, -32603, NullId, NoSession, "", error))

\* A guard that would take any response with an id, pending or not.
MatchesWithoutLookup(response) == Truthy(response.id)

\* handleMCPResponse's guard: response.id && this.pendingRequests.has(response.id)
Matches(response) == Truthy(response.id) /\ response.id \in pendingRequests

\* A correlator that would answer in order of dispatch: the oldest entry.
OldestPendingEntry(response) ==
  CHOOSE i \in pendingRequests : \A j \in pendingRequests : i <= j

\* The entry handleMCPResponse takes out of pendingRequests for a response.
PendingEntry(response) == response.id

\* A response handler that takes any result of a pending request for the
\* handshake's and sets the flag without storing anything.
handleMCPResponseFlagOnly(response) ==
  IF Matches(response)
  THEN
    LET id == PendingEntry(response) IN
    /\ pendingRequests' = pendingRequests \ {id}
    /\ IF response.kind = "error"
       THEN /\ UNCHANGED << isInitialized, mcpCapabilities >>
            /\ Continue(id, FALSE, "", "child error", timers)
       ELSE /\ isInitialized' = TRUE
            /\ UNCHANGED mcpCapabilities
            /\ Continue(id, TRUE, response.kind, "", timers)
  ELSE /\ UNCHANGED << pendingRequests, isInitialized, mcpCapabilities, callers,
                       phase, sessions, nextSession, timers, keepAlive >>
       /\ NoReply
       /\ NoSettle

handleMCPResponse(response) ==
  IF Matches(response)
  THEN
    LET id == PendingEntry(response) IN
    /\ pendingRequests' = pendingRequests \ {id}
    /\ IF response.kind = "error"
       THEN /\ UNCHANGED << isInitialized, mcpCapabilities >>
            /\ Continue(id, FALSE, "", "child error", timers)
       ELSE /\ IF response.kind = "caps"
               THEN mcpCapabilities' = "caps" /\ isInitialized' = TRUE
               ELSE UNCHANGED << isInitialized, mcpCapabilities >>
            /\ Continue(id, TRUE, response.kind, "", timers)
  ELSE /\ UNCHANGED << pendingRequests, isInitialized, mcpCapabilities, callers,
                       phase, sessions, nextSession, timers, keepAlive >>
       /\ NoReply
       /\ NoSettle

\* The message of the Error a timer rejects with.
TimeoutMessage(id) ==
  IF callers[id].kind = "startup" THEN "MCP initialization timeout"
  ELSE IF variant = "compliant" THEN "Request timeout"
  ELSE "MCP request timeout"

\* The callback of setTimeout in proxyToMCP (30000 ms) and in the simple
\* variant's initializeMCP (10000 ms).
TimerCallback(id) ==
  IF id \in pendingRequests
  THEN /\ pendingRequests' = pendingRequests \ {id}
       /\ Continue(id, FALSE, "", TimeoutMessage(id), timers \ {id})
  ELSE /\ UNCHANGED << pendingRequests, callers, phase, sessions, nextSession,
                       keepAlive >>
       /\ timers' = timers \ {id}
       /\ NoReply
       /\ NoSettle

\* ------------------------------------------------------------ bridge start

\* start(): startMCPProcess throws when the entry point does not exist, and
\* start() exits the process; else the child is spawned and initializeMCP
\* sends the bridge's own initialize request (the simple variant arms a
\* timer for it, the compliant variant does not).
Start(entryExists) ==
  /\ Idle
  /\ phase = "constructed"
  /\ IF ~entryExists
     THEN /\ Exit
          /\ NoWrite
          /\ UNCHANGED << childVars, requestId, pendingRequests >>
     ELSE /\ phase' = "starting"
          /\ mcpProcess' = TRUE
          /\ stdinWritable' = TRUE
          /\ requestId' = requestId + 1
          /\ pendingRequests' = pendingRequests \cup {requestId}
          /\ callers' = [callers EXCEPT ![requestId] =
                           [kind |-> "startup", state |-> "pending",
                            id |-> NoId, params |-> "absent"]]
          /\ Write(requestId)
          /\ timers' = IF variant = "simple" THEN timers \cup {requestId} ELSE timers
          /\ UNCHANGED keepAlive
  /\ NoReply /\ NoSettle
  /\ lastRequest' = NoRequest
  /\ frame' = NoFrame
  /\ UNCHANGED << stdoutVars, variant, isInitialized, mcpCapabilities, sessionVars,
                  sseConnections >>

\* ------------------------------------------------------- the child process

\* mcpProcess.stdout.on('data'): one complete line that parses as JSON. The
\* stream outlives the 'exit' event: what the child wrote before it exited
\* may be delivered after it. A line with an id the bridge has not allocated
\* yet is handled as one with id 0 is, and is left out.
StdoutData(response) ==
  /\ Running
  /\ response.id < requestId
  /\ handleMCPResponse(response)
  /\ NoWrite
  /\ lastRequest' = NoRequest
  /\ frame' = NoFrame
  /\ UNCHANGED << stdoutVars, variant, childVars, requestId, sseConnections >>

\* An exit handler that also forgets the sessions made with the dead child.
ChildExitExpiringSessions ==
  /\ Running
  /\ mcpProcess
  /\ mcpProcess' = FALSE
  /\ stdinWritable' = FALSE
  /\ isInitialized' = FALSE
  /\ sessions' = {}
  /\ NoWrite /\ NoReply /\ NoSettle
  /\ lastRequest' = NoRequest
  /\ frame' = NoFrame
  /\ UNCHANGED << stdoutVars, variant, phase, requestId, pendingRequests,
                  callers, timers, mcpCapabilities, nextSession, sseVars >>

\* mcpProcess.on('exit'): the handle and the readiness flag are reset.
ChildExit ==
  /\ Running
  /\ mcpProcess
  /\ mcpProcess' = FALSE
  /\ stdinWritable' = FALSE
  /\ isInitialized' = FALSE
  /\ NoWrite /\ NoReply /\ NoSettle
  /\ lastRequest' = NoRequest
  /\ frame' = NoFrame
  /\ UNCHANGED << stdoutVars, variant, phase, requestId, pendingRequests, callers, timers,
                  mcpCapabilities, sessionVars, sseVars >>

\* A request timer fires.
Timeout(id) ==
  /\ Running
  /\ id \in timers
  /\ TimerCallback(id)
  /\ NoWrite
  /\ lastRequest' = NoRequest
  /\ frame' = NoFrame
  /\ UNCHANGED << stdoutVars, variant, childVars, requestId, isInitialized,
                  mcpCapabilities, sseConnections >>

\* ------------------------------------------------------------ HTTP gateway

\* The HTTP requests a client may send.
AllRequests ==
  [ method : HttpMethods, path : Paths, origin : Origins, version : Versions,
    accept : Accepts, session : SessionHeaders ]
\* A request under headers that pass the gateway's validation: no Origin, no
\* MCP-Protocol-Version, an Accept naming both media types.
PlainAccept == <<"application/json", "text/event-stream">>
PlainRequest(method, path, session) ==
  [ method |-> method, path |-> path, origin |-> "", version |-> "",
    accept |-> PlainAccept, session |-> session ]

\* The requests of Spec: POST, GET and DELETE on /mcp with every session
\* header, and on /sse.
Requests ==
  { PlainRequest(method, <<"mcp">>, session) :
      method \in {"GET", "POST", "DELETE"}, session \in SessionHeaders }
  \cup { PlainRequest(method, <<"sse">>, NoSession) :
          method \in {"GET", "POST", "DELETE"} }

\* A session id a client can hold: none, one a handshake issued, a made-up one.
Known(sessionId) == sessionId \in {NoSession, Bogus} \cup 1..(nextSession - 1)

\* A response written without touching the bridge's state.
Answer(response) ==
  /\ Reply(response)
  /\ NoWrite
  /\ NoSettle
  /\ frame' = NoFrame
  /\ UNCHANGED << requestId, pendingRequests, callers, timers, sessions,
                  sseVars >>

\* A session check that would let every session id through.
SessionNeverRejected(sessionId) == FALSE

\* The session check of handleMCPPost and handleMCPGet:
\* sessionId && !this.sessions.has(sessionId)
SessionRejected(sessionId) == sessionId # NoSession /\ sessionId \notin sessions

\* A proxy that arms no timer: only the child's response settles the call.
proxyToMCPWithoutTimer(kind, message) ==
  /\ requestId <= MaxRequestId
  /\ requestId' = requestId + 1
  /\ pendingRequests' = pendingRequests \cup {requestId}
  /\ callers' = [callers EXCEPT ![requestId] = Awaiting(kind, message)]
  /\ IF ProcessAvailable THEN Write(requestId) ELSE NoWrite
  /\ UNCHANGED timers
  /\ NoReply
  /\ NoSettle
  /\ frame' = NoFrame
  /\ UNCHANGED << sessions, sseVars >>

\* A proxy that takes the least id with no pending entry, so that the id of a
\* settled request is given out again.
proxyToMCPReusingIds(kind, message) ==
  LET id == CHOOSE i \in 1..requestId :
              i \notin pendingRequests /\ \A j \in 1..(i - 1) : j \in pendingRequests
  IN
  /\ id <= MaxRequestId
  /\ requestId' = IF id = requestId THEN requestId + 1 ELSE requestId
  /\ pendingRequests' = pendingRequests \cup {id}
  /\ callers' = [callers EXCEPT ![id] = Awaiting(kind, message)]
  /\ IF ProcessAvailable THEN Write(id) ELSE NoWrite
  /\ timers' = timers \cup {id}
  /\ NoReply
  /\ NoSettle
  /\ frame' = NoFrame
  /\ UNCHANGED << sessions, sseVars >>

\* proxyToMCP of the compliant variant: allocate the id, record the pending
\* entry, write the request if the process is available (sendToMCP only logs
\* when it is not), arm the timer. The caller awaits the promise.
proxyToMCP(kind, message) ==
  /\ requestId <= MaxRequestId
  /\ requestId' = requestId + 1
  /\ pendingRequests' = pendingRequests \cup {requestId}
  /\ callers' = [callers EXCEPT ![requestId] = Awaiting(kind, message)]
  /\ IF ProcessAvailable THEN Write(requestId) ELSE NoWrite
  /\ timers' = timers \cup {requestId}
  /\ NoReply
  /\ NoSettle
  /\ frame' = NoFrame
  /\ UNCHANGED << sessions, sseVars >>

\* proxyToMCP of the simple variant, called by handleMCP: it throws before
\* allocating when the bridge is not initialized; sendToMCP throws inside the
\* promise executor when the process is not available, which rejects the
\* promise at once, after the pending entry was set and before the timer is.
\* handleMCP's catch answers either with 500.
proxyToMCPSimple(message) ==
  IF ~isInitialized
  THEN Answer(Response(500, -32603, NullId, NoSession, "",
                       "MCP server not initialized"))
  ELSE
    /\ requestId <= MaxRequestId
    /\ requestId' = requestId + 1
    /\ pendingRequests' = pendingRequests \cup {requestId}
    /\ frame' = NoFrame
    /\ UNCHANGED << sessions, sseVars >>
    /\ IF ProcessAvailable
       THEN /\ callers' = [callers EXCEPT ![requestId] =
                             Awaiting("request", message)]
            /\ Write(requestId)
            /\ timers' = timers \cup {requestId}
            /\ NoReply
            /\ NoSettle
       ELSE /\ callers' = [callers EXCEPT ![requestId] = Settled]
            /\ settled' = Settlement(requestId, FALSE, "MCP process not available")
            /\ Reply(Response(500, -32603, NullId, NoSession, "",
                              "MCP process not available"))
            /\ NoWrite
            /\ UNCHANGED timers

\* handleMCPPost's test for a request: if (message.id)
IsRequest(message) == Truthy(message.id)

\* What handleMCPPost's catch block answers.
ParseErrorReply == Response(400, -32700, NullId, NoSession, "", "Parse error")

\* req.on('end') of handleMCPPost (compliant variant).
handleMCPPostEnd(sessionId, body) ==
  IF body = Malformed
  THEN Answer(ParseErrorReply)
  ELSE IF body.method = "initialize"
  THEN proxyToMCP("initialize", body)
  ELSE IF SessionRejected(sessionId)
  THEN Answer(Response(404, -32001, body.id, NoSession, "", "Session not found"))
  ELSE IF IsRequest(body)
  THEN proxyToMCP("request", body)
  ELSE /\ IF body.method # "" /\ ProcessAvailable
          THEN Write(body.id) ELSE NoWrite
       /\ Reply(Response(202, 0, NoId, NoSession, "", ""))
       /\ NoSettle
       /\ frame' = NoFrame
       /\ UNCHANGED << requestId, pendingRequests, callers, timers, sessions,
                       sseVars >>

\* handleMCPPost (compliant variant): the Accept check, then the body.
handleMCPPost(req, body) ==
  IF ~validateAcceptHeader(req.accept, {"application/json", "text/event-stream"})
  THEN Answer(Response(400, -32600, NullId, NoSession, "",
                       "Accept header must include application/json and text/event-stream"))
  ELSE handleMCPPostEnd(req.session, body)

\* handleMCP (simple variant): 405 for another method than POST, then the body.
handleMCP(req, body) ==
  IF req.method # "POST"
  THEN Answer(Response(405, 0, NoId, NoSession, "", "Method not allowed"))
  ELSE IF body = Malformed
  THEN Answer(Response(500, -32603, NullId, NoSession, "", "SyntaxError"))
  ELSE proxyToMCPSimple(body)

\* The body of handleHealth: mcp_initialized and mcp_server
\* (this.mcpCapabilities?.serverInfo || null).
HealthBody(initialized, capabilities) ==
  IF initialized
  THEN IF capabilities # "null" THEN "healthy, initialized, server known"
       ELSE "healthy, initialized, server null"
  ELSE IF capabilities # "null" THEN "healthy, not initialized, server known"
       ELSE "healthy, not initialized, server null"

\* A health handler that answers 503 once the child is gone.
handleHealthOfLiveChild ==
  IF mcpProcess
  THEN Answer(Response(200, 0, NoId, NoSession,
                       HealthBody(isInitialized, mcpCapabilities), ""))
  ELSE Answer(Response(503, 0, NoId, NoSession, "", "MCP server not available"))

\* handleHealth
handleHealth ==
  Answer(Response(200, 0, NoId, NoSession,
                  HealthBody(isInitialized, mcpCapabilities), ""))

\* Connection ids are fresh (randomUUID); one that was closed is never
\* looked at again, so the model takes the least id not in use.
FreeConnections == (1..MaxStreams) \ (keepAlive \cup sseConnections)
NewConnection == CHOOSE c \in FreeConnections : \A d \in FreeConnections : c <= d

\* A hub that would push the last-known capabilities whether or not the
\* child is ready.
OpenStreamLastKnown(registered) ==
  /\ FreeConnections # {}
  /\ Reply(Response(200, 0, NoId, NoSession, "stream", ""))
  /\ frame' = IF mcpCapabilities # "null"
              THEN Frame(NewConnection, "capabilities") ELSE NoFrame
  /\ sseConnections' = IF registered THEN sseConnections \cup {NewConnection}
                       ELSE sseConnections
  /\ keepAlive' = keepAlive \cup {NewConnection}
  /\ NoWrite
  /\ NoSettle
  /\ UNCHANGED << requestId, pendingRequests, callers, timers, sessions >>

\* Opening a stream: the 200 text/event-stream head, the capabilities frame
\* when the bridge is initialized and holds capabilities, the interval; the
\* compliant variant registers the connection in sseConnections.
OpenStream(registered) ==
  /\ FreeConnections # {}
  /\ Reply(Response(200, 0, NoId, NoSession, "stream", ""))
  /\ frame' = IF isInitialized /\ mcpCapabilities # "null"
              THEN Frame(NewConnection, "capabilities") ELSE NoFrame
  /\ sseConnections' = IF registered THEN sseConnections \cup {NewConnection}
                       ELSE sseConnections
  /\ keepAlive' = keepAlive \cup {NewConnection}
  /\ NoWrite
  /\ NoSettle
  /\ UNCHANGED << requestId, pendingRequests, callers, timers, sessions >>

\* handleMCPGet (compliant variant)
handleMCPGet(req) ==
  IF ~Includes(req.accept, "text/event-stream")
  THEN Answer(Response(400, 0, NoId, NoSession, "",
                       "Accept header must include text/event-stream"))
  ELSE IF SessionRejected(req.session)
  THEN Answer(Response(404, 0, NoId, NoSession, "", "Session not found"))
  ELSE OpenStream(TRUE)

\* A DELETE handler that would answer without terminating the session.
handleMCPDeleteKeeping(sessionId) ==
  IF sessionId = NoSession
  THEN Answer(Response(400, 0, NoId, NoSession, "", "Session ID required"))
  ELSE IF sessionId \in sessions
  THEN Answer(Response(200, 0, NoId, NoSession, "Session terminated", ""))
  ELSE Answer(Response(404, 0, NoId, NoSession, "", "Session not found"))

\* handleMCPDelete (compliant variant)
handleMCPDelete(sessionId) ==
  IF sessionId = NoSession
  THEN Answer(Response(400, 0, NoId, NoSession, "", "Session ID required"))
  ELSE IF sessionId \in sessions
  THEN /\ sessions' = sessions \ {sessionId}
       /\ Reply(Response(200, 0, NoId, NoSession, "Session terminated", ""))
       /\ NoWrite
       /\ NoSettle
       /\ frame' = NoFrame
       /\ UNCHANGED << requestId, pendingRequests, callers, timers, sseVars >>
  ELSE Answer(Response(404, 0, NoId, NoSession, "", "Session not found"))

\* handleMCPEndpoint (compliant variant)
handleMCPEndpoint(req, body) ==
  CASE req.method = "POST" -> handleMCPPost(req, body)
    [] req.method = "GET" -> handleMCPGet(req)
    [] req.method = "DELETE" -> handleMCPDelete(req.session)
    [] OTHER -> Answer(Response(405, 0, NoId, NoSession, "", "Method not allowed"))

NotFound == Answer(Response(404, 0, NoId, NoSession, "", "Not Found"))

\* http.createServer's callback and handleHTTPRequest (compliant variant).
HttpCompliant(req, body) ==
  LET path == NormalizePath(req.path, {"health", "mcp"}) IN
  IF req.origin # "" /\ ~isAllowedOrigin(req.origin)
  THEN Answer(Response(403, 0, NoId, NoSession, "", "Forbidden origin"))
  ELSE IF req.method = "OPTIONS"
  THEN Answer(Response(200, 0, NoId, NoSession, "", ""))
  ELSE IF req.version # "" /\ validateProtocolVersion(req.version) = "null"
  THEN Answer(Response(400, 0, NoId, NoSession, "",
                       "Invalid or unsupported MCP-Protocol-Version"))
  ELSE IF path = <<"health">> THEN handleHealth
  ELSE IF path = <<"mcp">> THEN handleMCPEndpoint(req, body)
  ELSE NotFound

\* http.createServer's callback and handleHTTPRequest (simple variant).
HttpSimple(req, body) ==
  LET path == NormalizePath(req.path, {"health", "mcp", "sse", "capabilities"}) IN
  IF req.method = "OPTIONS"
  THEN Answer(Response(200, 0, NoId, NoSession, "", ""))
  ELSE IF path = <<"health">> THEN handleHealth
  ELSE IF path = <<"mcp">> THEN handleMCP(req, body)
  ELSE IF path = <<"sse">> THEN OpenStream(FALSE)
  ELSE IF path = <<"capabilities">>
  THEN IF ~isInitialized
       THEN Answer(Response(503, 0, NoId, NoSession, "", "MCP server not initialized"))
       ELSE Answer(Response(200, 0, NoId, NoSession, mcpCapabilities, ""))
  ELSE NotFound

\* An HTTP request arrives; `body` is what a POST carries (the handlers of a
\* POST read it to its end before they look at the bridge's state).
HttpRequest(req, body) ==
  /\ Running
  /\ phase = "listening"
  /\ Known(req.session)
  /\ (req.method = "POST") = (body # NoBody)
  /\ IF variant = "compliant" THEN HttpCompliant(req, body)
     ELSE HttpSimple(req, body)
  /\ lastRequest' = Received(req, body)
  /\ UNCHANGED << stdoutVars, variant, phase, childVars, isInitialized, mcpCapabilities,
                  nextSession >>

\* A close handler that would tear down every stream.
ClientDisconnectAll(connectionId) ==
  /\ Running
  /\ phase = "listening"
  /\ connectionId \in keepAlive
  /\ sseConnections' = {}
  /\ keepAlive' = {}
  /\ NoWrite /\ NoReply /\ NoSettle
  /\ lastRequest' = NoRequest
  /\ frame' = NoFrame
  /\ UNCHANGED << stdoutVars, variant, phase, childVars, requestId, pendingRequests,
                  callers, timers, isInitialized, mcpCapabilities,
                  sessionVars >>

\* req.on('close') of a stream: the entry and the interval go.
ClientDisconnect(connectionId) ==
  /\ Running
  /\ phase = "listening"
  /\ connectionId \in keepAlive
  /\ sseConnections' = sseConnections \ {connectionId}
  /\ keepAlive' = keepAlive \ {connectionId}
  /\ NoWrite /\ NoReply /\ NoSettle
  /\ lastRequest' = NoRequest
  /\ frame' = NoFrame
  /\ UNCHANGED << stdoutVars, variant, phase, childVars, requestId, pendingRequests,
                  callers, timers, isInitialized, mcpCapabilities,
                  sessionVars >>

\* The interval callback of a stream: the compliant variant writes the
\* keep-alive comment while the connection is registered and clears the
\* interval otherwise; the simple variant writes a ping event.
KeepAliveTick(connectionId) ==
  /\ Running
  /\ phase = "listening"
  /\ connectionId \in keepAlive
  /\ IF variant = "simple"
     THEN frame' = Frame(connectionId, "ping") /\ UNCHANGED keepAlive
     ELSE IF connectionId \in sseConnections
     THEN frame' = Frame(connectionId, "keepalive") /\ UNCHANGED keepAlive
     ELSE frame' = NoFrame /\ keepAlive' = keepAlive \ {connectionId}
  /\ NoWrite /\ NoReply /\ NoSettle
  /\ lastRequest' = NoRequest
  /\ UNCHANGED << stdoutVars, variant, phase, childVars, requestId, pendingRequests,
                  callers, timers, isInitialized, mcpCapabilities,
                  sessionVars, sseConnections >>

\* shutdown(), on SIGTERM or SIGINT: the compliant variant ends and clears
\* its connections and clears its sessions; both send the child SIGTERM when
\* there is one, arm a 5000 ms timer that would send SIGKILL, and call
\* process.exit(0) at once, which takes that timer with all the others.
Shutdown ==
  /\ Running
  /\ Exit
  /\ sseConnections' = IF variant = "compliant" THEN {} ELSE sseConnections
  /\ sessions' = IF variant = "compliant" THEN {} ELSE sessions
  /\ written' = IF mcpProcess THEN <<SIGTERM>> ELSE <<>>
  /\ NoReply /\ NoSettle
  /\ lastRequest' = NoRequest
  /\ frame' = NoFrame
  /\ UNCHANGED << stdoutVars, variant, childVars, requestId, pendingRequests,
                  isInitialized, mcpCapabilities, nextSession >>

\* The callback returns to the event loop.
Return ==
  /\ ~Idle
  /\ NoWrite /\ NoReply /\ NoSettle
  /\ lastRequest' = NoRequest
  /\ frame' = NoFrame
  /\ UNCHANGED << stdoutVars, variant, phase, childVars, requestId, pendingRequests,
                  callers, timers, isInitialized, mcpCapabilities,
                  sessionVars, sseVars >>

Next ==
  \/ \E entryExists \in BOOLEAN : Start(entryExists)
  \/ \E response \in ChildLines : StdoutData(response)
  \/ ChildExit
  \/ \E id \in Ids : Timeout(id)
  \/ \E req \in Requests, body \in Bodies :
        HttpRequest(req, body) /\ Cardinality(keepAlive') <= MaxConnections
  \/ \E connectionId \in 1..MaxConnections : ClientDisconnect(connectionId)
  \/ Shutdown
  \/ Return

\* The bridge under requests with plain headers: correlator and sessions,
\* with at most MaxConnections streams open.
Spec == Init /\ [][Next]_vars

\* The GET requests that ask for a stream: on /mcp and /sse, bare and behind
\* a proxy prefix, with every Accept header, with no session id and with an
\* unknown one.
StreamRequests ==
  { [ method |-> "GET", path |-> path, origin |-> "", version |-> "",
      accept |-> accept, session |-> session ] :
      path \in {<<"mcp">>, <<"sse">>, <<"api", "sse">>},
      accept \in Accepts, session \in {NoSession, Bogus} }

NextStreams ==
  \/ \E entryExists \in BOOLEAN : Start(entryExists)
  \/ \E response \in ChildLines : StdoutData(response)
  \/ ChildExit
  \/ \E id \in Ids : Timeout(id)
  \/ \E req \in StreamRequests : HttpRequest(req, NoBody)
  \/ \E connectionId \in 1..MaxStreams : KeepAliveTick(connectionId)
  \/ \E connectionId \in 1..MaxStreams : ClientDisconnect(connectionId)
  \/ Shutdown
  \/ Return

\* The bridge under streaming requests only: up to MaxStreams streams, their
\* keep-alive ticks and their disconnections.
SpecStreams == Init /\ [][NextStreams]_vars

\* Every method, path and combination of Origin, MCP-Protocol-Version and
\* Accept headers, with no session id and with an unknown one; a POST carries
\* a malformed body or a notification.
GatewayRequests ==
  [ method : HttpMethods, path : Paths, origin : Origins, version : Versions,
    accept : Accepts, session : {NoSession, Bogus} ]
GatewayBodies == {NoBody, Malformed, Message("tools/list", NoId, "object")}

InitGateway == Init /\ variant = "compliant"

NextGateway ==
  \/ \E entryExists \in BOOLEAN : Start(entryExists)
  \/ \E response \in ChildLines : StdoutData(response)
  \/ ChildExit
  \/ /\ Idle
     /\ \E req \in GatewayRequests, body \in GatewayBodies :
          HttpRequest(req, body) /\ Cardinality(keepAlive') <= MaxConnections
  \/ \E connectionId \in 1..MaxConnections : ClientDisconnect(connectionId)
  \/ Shutdown
  \/ Return

\* The compliant bridge under every kind of request: the validation steps of
\* the HTTP gateway and its routes.
SpecGateway == InitGateway /\ [][NextGateway]_vars

\* ------------------------------------------------------- requests in flight
\* POST and DELETE on /mcp under every session header.
LiveRequests ==
  { PlainRequest(method, <<"mcp">>, session) :
      method \in {"POST", "DELETE"}, session \in SessionHeaders }

NextLive ==
  \/ \E entryExists \in BOOLEAN : Start(entryExists)
  \/ \E response \in ChildLines : StdoutData(response)
  \/ ChildExit
  \/ \E id \in Ids : Timeout(id)
  \/ \E req \in LiveRequests, body \in Bodies : HttpRequest(req, body)
  \/ Return

\* The bridge while it runs, with the event loop's guarantees: a callback
\* returns, and a timer that is armed fires, whatever else is delivered in
\* between.
SpecLive ==
  /\ Init
  /\ [][NextLive]_vars
  /\ WF_vars(Return)
  /\ \A id \in Ids : SF_vars(Timeout(id))

\* ------------------------------------------------------- the stdout handler
\* The bytes of the child's output: an ASCII character of a JSON text, an
\* ASCII character no JSON text contains, the newline, and the two bytes
\* (0xC3 0xA9) of one character outside ASCII.
MaxStreamLen == 4
Bytes == {"a", "#", "LF", "C3", "A9"}
RECURSIVE SeqsUpTo(_)
SeqsUpTo(n) ==
  IF n = 0 THEN {<<>>}
  ELSE SeqsUpTo(n - 1) \cup [1..n -> Bytes]
Streams == SeqsUpTo(MaxStreamLen)

\* data.toString(): UTF-8 decoding of one chunk on its own. A lead byte
\* without its continuation byte in the chunk, and a continuation byte
\* without its lead byte, each become the replacement character U+FFFD.
RECURSIVE toString(_)
toString(data) ==
  IF data = <<>> THEN <<>>
  ELSE IF data[1] = "C3"
  THEN IF Len(data) >= 2 /\ data[2] = "A9"
       THEN <<"e-acute">> \o toString(SubSeq(data, 3, Len(data)))
       ELSE <<"U+FFFD">> \o toString(Tail(data))
  ELSE IF data[1] = "A9" THEN <<"U+FFFD">> \o toString(Tail(data))
  ELSE <<data[1]>> \o toString(Tail(data))

\* text.split('\n'): the pieces between the newlines, at least one.
RECURSIVE split(_)
split(text) ==
  IF ~Includes(text, "LF") THEN <<text>>
  ELSE LET i == CHOOSE k \in 1..Len(text) :
                  text[k] = "LF" /\ \A j \in 1..(k - 1) : text[j] # "LF"
       IN <<SubSeq(text, 1, i - 1)>> \o split(SubSeq(text, i + 1, Len(text)))

\* JSON.parse(line) returns (it throws on a character no JSON text has; the
\* message it returns is told by the line's characters).
Parses(line) == ~Includes(line, "#")

\* The for loop of the handler: every non-empty line that parses is given
\* to handleMCPResponse, the others are logged and skipped.
RECURSIVE Dispatch(_)
Dispatch(lines) ==
  IF lines = <<>> THEN <<>>
  ELSE (IF Head(lines) # <<>> /\ Parses(Head(lines)) THEN <<Head(lines)>>
        ELSE <<>>) \o Dispatch(Tail(lines))

\* mcpProcess.stdout.on('data'): a chunk of `size` bytes is appended to the
\* buffer, the buffer is split, its last piece is kept, the others are
\* dispatched.
StdoutChunk(size) ==
  /\ size <= Len(unread)
  /\ LET data == SubSeq(unread, 1, size)
         lines == split(buffer \o toString(data))
     IN /\ buffer' = lines[Len(lines)]
        /\ dispatched' = dispatched \o Dispatch(SubSeq(lines, 1, Len(lines) - 1))
  /\ unread' = SubSeq(unread, size + 1, Len(unread))
  /\ UNCHANGED << stream, variant, phase, childVars, requestId,
                  pendingRequests, callers, timers, isInitialized,
                  mcpCapabilities, sessionVars, sseVars, written, settled,
                  lastRequest, lastHttp, frame >>

InitFraming ==
  /\ Constructed
  /\ stream \in Streams
  /\ unread = stream
  /\ buffer = <<>>
  /\ dispatched = <<>>

NextFraming == \E size \in 1..MaxStreamLen : StdoutChunk(size)

\* The stdout handler under every output of the child up to MaxStreamLen
\* bytes and every way of delivering it in chunks.
SpecFraming == InitFraming /\ [][NextFraming]_vars

\* ---------------------------------------------------------- C1 correlation

\* What one line of the child may do to the correlator: settle the caller of
\* its own id and no other, take its own entry out of pendingRequests and no
\* other; a line that matches no pending entry settles nobody and leaves
\* every entry and every caller as they were.
CorrelatedBy(response) ==
  /\ settled'.id \in {0, response.id}
  /\ pendingRequests' \subseteq pendingRequests
  /\ pendingRequests \ pendingRequests' \subseteq {response.id}
  /\ \A i \in Ids \ {response.id} : callers'[i] = callers[i]
  /\ response.id \notin pendingRequests =>
       /\ settled' = NoSettlement
       /\ pendingRequests' = pendingRequests
       /\ callers' = callers
       /\ lastHttp' = NoResponse

\* C1: whatever calls are pending and in whatever order the child's responses
\* arrive, the caller that was allocated id N is resolved or rejected by a
\* response only when the response's id is N, and a response whose id matches
\* no pending entry changes no pending entry and settles no caller.
C1_Correlation ==
  [][\A response \in ChildLines : StdoutData(response) => CorrelatedBy(response)]_vars

\* Two calls are in flight and the child answered the later one first: the
\* HTTP caller of id 3 has its result while id 2 is still pending.
C1_OutOfOrder ==
  /\ settled = Settlement(3, TRUE, "result")
  /\ lastHttp.status = 200
  /\ lastHttp.result = "result"
  /\ 2 \in pendingRequests
  /\ callers[2].state = "pending"

\* -------------------------------------------------------------- C2 timeout

TimeoutErrors ==
  {"Request timeout", "MCP request timeout", "MCP initialization timeout"}

\* The timer of a call that is still pending rejects it with a timeout error
\* and takes its entry, and only its entry, out of pendingRequests.
TimedOut(id) ==
  id \in pendingRequests =>
    /\ pendingRequests' = pendingRequests \ {id}
    /\ settled'.id = id
    /\ ~settled'.ok
    /\ settled'.value \in TimeoutErrors
    /\ callers'[id].state # "pending"

\* A response for an id that is not pending settles nobody and leaves
\* pendingRequests and the readiness flag and capabilities alone.
Discarded(response) ==
  response.id \notin pendingRequests =>
    /\ settled' = NoSettlement
    /\ UNCHANGED << pendingRequests, isInitialized, mcpCapabilities >>

\* C2: a call that got no response with its id before its timer fires is
\* rejected with a timeout error and its entry is removed from
\* pendingRequests; a response for that id that arrives afterwards is
\* discarded: it settles no caller and changes neither pendingRequests nor
\* the readiness.
C2_Timeout ==
  [][ /\ \A id \in Ids : Timeout(id) => TimedOut(id)
      /\ \A response \in ChildLines : StdoutData(response) => Discarded(response)
    ]_vars

\* The timer of the HTTP call with id 2 has just fired: the call is
\* rejected with the timeout error and its entry is gone.
C2_TimedOut ==
  /\ settled = Settlement(2, FALSE, "Request timeout")
  /\ 2 \notin pendingRequests
  /\ 2 \notin timers
  /\ callers[2].state = "settled"
  /\ lastHttp # NoResponse

\* ----------------------------------------------------- C3 session issuance

\* This step settles the handshake call of an HTTP client.
InitializeSettled(id) ==
  /\ callers[id].kind = "initialize"
  /\ callers[id].state = "pending"
  /\ settled'.id = id

\* This step adds exactly one session, a new one, and returns its id in the
\* Mcp-Session-Id header of a 200 response.
SessionIssued ==
  /\ lastHttp'.status = 200
  /\ lastHttp'.session # NoSession
  /\ lastHttp'.session \notin sessions
  /\ sessions' = sessions \cup {lastHttp'.session}

\* C3: an initialize POST adds a session and returns its id in the
\* Mcp-Session-Id header if and only if its round trip through the child
\* succeeded: a failed or timed-out initialize creates no session, every
\* successful one, whatever its params, creates exactly one.
C3_SessionIssuance ==
  [][\A id \in Ids : InitializeSettled(id) =>
        IF settled'.ok THEN SessionIssued
        ELSE sessions' = sessions /\ lastHttp'.session = NoSession]_vars

\* The child answered the initialize of a client that sent no params with a
\* result, and the client got 500 and no session.
C3_SuccessWithoutSession ==
  /\ settled.ok
  /\ settled.id = 2
  /\ lastHttp = Response(500, -32603, ClientId, NoSession, "", "TypeError")
  /\ sessions = {}
  /\ nextSession = 1

\* -------------------------------------------------- C4 session termination

\* The step is a DELETE /mcp with a session id a handshake issued.
DeleteIssued ==
  /\ lastRequest'.method = "DELETE"
  /\ lastRequest'.path = <<"mcp">>
  /\ lastRequest'.session \in 1..(nextSession - 1)

\* C4: for a session id a successful handshake issued, the first DELETE /mcp
\* with it returns 200 and removes it from the session set; every later
\* DELETE /mcp with it returns 404 and leaves the session set unchanged,
\* whatever other requests come in between (no step brings a removed id
\* back).
C4_TerminatedOnce ==
  [][ /\ DeleteIssued =>
            IF lastRequest'.session \in sessions
            THEN /\ lastHttp'.status = 200
                 /\ sessions' = sessions \ {lastRequest'.session}
            ELSE /\ lastHttp'.status = 404
                 /\ sessions' = sessions
      /\ \A s \in 1..(nextSession - 1) : s \notin sessions => s \notin sessions'
    ]_vars

\* Session 1 was issued and terminated, and a later DELETE with it has just
\* been answered 404.
C4_SecondDelete ==
  /\ lastRequest = Received(PlainRequest("DELETE", <<"mcp">>, 1), NoBody)
  /\ lastHttp.status = 404
  /\ nextSession > 1
  /\ 1 \notin sessions
  /\ phase = "listening"

\* ------------------------------------------------------ C5 unknown session

\* The step is a POST /mcp to the compliant bridge with a well-formed
\* message.
PostMessage ==
  /\ variant = "compliant"
  /\ lastRequest'.method = "POST"
  /\ lastRequest'.path = <<"mcp">>
  /\ lastRequest'.body \in Messages

\* C5: a POST /mcp whose method is not initialize and whose Mcp-Session-Id
\* is not in the session set is answered 404 with JSON-RPC error -32001, and
\* nothing goes to the child: no request id is allocated, no pending entry
\* is created, nothing is written to the child's input.
C5_UnknownSession ==
  [][ ( /\ PostMessage
        /\ lastRequest'.body.method # "initialize"
        /\ lastRequest'.session # NoSession
        /\ lastRequest'.session \notin sessions ) =>
        /\ lastHttp'.status = 404
        /\ lastHttp'.code = -32001
        /\ requestId' = requestId
        /\ pendingRequests' = pendingRequests
        /\ callers' = callers
        /\ written' = <<>>]_vars

\* A tools/list request under a terminated session id has just been refused
\* while the child was available.
C5_Refused ==
  /\ lastRequest.method = "POST"
  /\ lastRequest.session = 1
  /\ lastRequest.body = Message("tools/list", ClientId, "object")
  /\ lastHttp.code = -32001
  /\ 1 \notin sessions
  /\ mcpProcess /\ stdinWritable

\* ----------------------------------------------------- C6 session validity

\* The step is a GET /mcp, or a POST /mcp with a well-formed message that is
\* not an initialize, to the compliant bridge under a supplied session id.
UnderSession ==
  /\ variant = "compliant"
  /\ lastRequest'.path = <<"mcp">>
  /\ lastRequest'.session # NoSession
  /\ \/ lastRequest'.method = "GET"
     \/ /\ lastRequest'.method = "POST"
        /\ lastRequest'.body \in Messages
        /\ lastRequest'.body.method # "initialize"

\* C6: POST /mcp and GET /mcp accept a supplied session id exactly while it
\* is in the session set, and answer 404 otherwise; an id that was removed
\* never comes back into the set, and a handshake never issues an id that
\* was issued before.
C6_ValidWhileInSet ==
  [][ /\ UnderSession =>
            ((lastHttp'.status = 404) <=> (lastRequest'.session \notin sessions))
      /\ \A s \in 1..(nextSession - 1) : s \notin sessions => s \notin sessions'
      /\ lastHttp'.session # NoSession =>
            /\ lastHttp'.session \notin 1..(nextSession - 1)
            /\ lastHttp'.session \in sessions'
    ]_vars

\* Session 1 was terminated, a later handshake issued session 2, and a GET
\* with session 1 has just been answered 404.
C6_StaleAfterReissue ==
  /\ lastRequest = Received(PlainRequest("GET", <<"mcp">>, 1), NoBody)
  /\ lastHttp.status = 404
  /\ sessions = {2}
  /\ sseConnections = {}

\* ------------------------------------------------ C7 request classification

\* C7: every well-formed POST /mcp message that carries an id, whatever its
\* value (0 included), and is not an initialize is handled as a request: a
\* round trip through the correlator is started (an id is allocated, a
\* pending entry recorded) and the answer is the 200 envelope that echoes
\* the client's id with the child's result, never the 202 of a notification.
C7_IdMeansRequest ==
  [][ /\ ( /\ PostMessage
            /\ lastRequest'.body.id # NoId
            /\ lastRequest'.body.method # "initialize"
            /\ ~SessionRejected(lastRequest'.session) ) =>
            /\ requestId' = requestId + 1
            /\ pendingRequests' = pendingRequests \cup {requestId}
            /\ callers'[requestId].id = lastRequest'.body.id
            /\ lastHttp'.status # 202
      /\ \A id \in Ids :
            ( /\ callers[id].kind = "request"
              /\ callers[id].state = "pending"
              /\ settled'.id = id
              /\ settled'.ok ) =>
            lastHttp' = Response(200, 0, callers[id].id, NoSession, settled'.value, "")
    ]_vars

\* A tools/list request with id 0 has just been answered 202 and passed to
\* the child as it came, with no id allocated and no pending entry.
C7_IdZeroAsNotification ==
  /\ lastRequest.method = "POST"
  /\ lastRequest.body = Message("tools/list", 0, "object")
  /\ lastHttp.status = 202
  /\ written = <<0>>
  /\ pendingRequests = {}
  /\ requestId = 2

\* ------------------------------------------------------- C8 notifications

\* C8: a well-formed POST /mcp message without an id (a notification: it has
\* a method), sent without a session header or under a live one, is answered
\* 202 with an empty body and forwarded to the child's input, creates no
\* pending entry and allocates no request id.
C8_NotificationForwarded ==
  [][ ( /\ PostMessage
        /\ lastRequest'.body.id = NoId
        /\ lastRequest'.body.method \notin {"", "initialize"}
        /\ ~SessionRejected(lastRequest'.session) ) =>
        /\ lastHttp' = Response(202, 0, NoId, NoSession, "", "")
        /\ written' = <<NoId>>
        /\ requestId' = requestId
        /\ pendingRequests' = pendingRequests
    ]_vars

\* The child has exited, and a notification has just been answered 202
\* without anything written to the child.
C8_AcceptedAndDropped ==
  /\ lastRequest.method = "POST"
  /\ lastRequest.body = Message("tools/list", NoId, "object")
  /\ lastHttp.status = 202
  /\ written = <<>>
  /\ ~mcpProcess

\* ------------------------------------------------ C9 round-trip failures

\* C9: when the round trip of a non-initialize request fails (the child
\* answers with an error, or the timer fires), the HTTP caller gets an error
\* envelope that carries that failure's message; the parse-error envelope
\* (400, -32700) is returned only for a body that failed to parse.
C9_FailureReported ==
  [][ /\ \A id \in Ids :
            ( /\ callers[id].kind = "request"
              /\ callers[id].state = "pending"
              /\ settled'.id = id
              /\ ~settled'.ok ) =>
            /\ lastHttp'.error = settled'.value
            /\ lastHttp'.code # -32700
      /\ lastHttp'.code = -32700 => lastRequest'.body = Malformed
    ]_vars

\* The child answered the request with id 2 with an error object, and the
\* HTTP caller got the parse-error envelope.
C9_ChildErrorAsParseError ==
  /\ settled = Settlement(2, FALSE, "child error")
  /\ lastHttp = ParseErrorReply
  /\ lastRequest = NoRequest

\* ----------------------------------------------------- C10 malformed body

\* C10: a POST /mcp whose body is not parseable JSON is answered 400 with a
\* JSON-RPC error envelope of code -32700 and changes nothing: no request id
\* allocated, no pending entry, no session, nothing written to the child.
C10_MalformedBody ==
  [][ ( /\ lastRequest'.method = "POST"
        /\ lastRequest'.path = <<"mcp">>
        /\ lastRequest'.body = Malformed ) =>
        /\ lastHttp'.status = 400
        /\ lastHttp'.code = -32700
        /\ written' = <<>>
        /\ UNCHANGED << requestId, pendingRequests, callers, sessionVars >>
    ]_vars

\* The simple bridge has just answered a malformed body with 500 and the
\* internal-error code.
C10_InternalError ==
  /\ variant = "simple"
  /\ lastRequest.method = "POST"
  /\ lastRequest.path = <<"mcp">>
  /\ lastRequest.body = Malformed
  /\ lastHttp = Response(500, -32603, NullId, NoSession, "", "SyntaxError")

\* ------------------------------------------------ C11 stream needs Accept

\* The last segment of a path ("" for the root).
FinalSegment(path) == IF path = <<>> THEN "" ELSE path[Len(path)]

\* C11: a GET whose normalized path is /sse or /mcp and whose Accept header
\* does not list text/event-stream is answered 400 and opens no stream: no
\* entry is added to the connection set, no keep-alive timer is started.
C11_StreamNeedsAccept ==
  [][ ( /\ lastRequest'.method = "GET"
        /\ FinalSegment(lastRequest'.path) \in {"sse", "mcp"}
        /\ ~Includes(lastRequest'.accept, "text/event-stream") ) =>
        /\ lastHttp'.status = 400
        /\ sseConnections' = sseConnections
        /\ keepAlive' = keepAlive
    ]_vars

\* The simple bridge has just opened a stream, and started its interval,
\* for a GET /sse that carried no Accept header.
C11_StreamWithoutAccept ==
  /\ variant = "simple"
  /\ lastRequest.method = "GET"
  /\ lastRequest.path = <<"sse">>
  /\ lastRequest.accept = <<>>
  /\ lastHttp = Response(200, 0, NoId, NoSession, "stream", "")
  /\ keepAlive = {1}

\* ------------------------------------------------- C12 initial stream frame

\* C12: when a streaming GET is accepted, one frame carrying the last-known
\* capabilities is written to the new connection at once if and only if the
\* child is ready at that moment; none is written after the child exited,
\* as long as no handshake made the bridge ready again.
C12_InitialFrame ==
  lastHttp.result = "stream" =>
    /\ (frame # NoFrame) <=> isInitialized
    /\ frame # NoFrame =>
          /\ frame.kind = "capabilities"
          /\ frame.connection \in keepAlive
          /\ mcpCapabilities # "null"

\* The child completed the handshake and exited; a stream has just been
\* opened and got no frame, although capabilities are still stored.
C12_NoFrameAfterExit ==
  /\ lastHttp.result = "stream"
  /\ frame = NoFrame
  /\ mcpCapabilities = "caps"
  /\ ~mcpProcess
  /\ ~isInitialized

\* ----------------------------------------------------- C13 stream lifecycle

\* C13: every tick of an open stream's interval writes a keep-alive frame to
\* that stream, and a registered stream always has its interval; when a
\* client disconnects, only that connection's entry and interval go, and the
\* child, the sessions, the pending requests and every other stream stay as
\* they were; no frame is ever written to a stream that is not open.
C13_StreamLifecycle ==
  [][ /\ \A c \in 1..MaxStreams : KeepAliveTick(c) =>
            /\ frame'.connection = c
            /\ frame'.kind \in {"keepalive", "ping"}
            /\ UNCHANGED << sseVars, childVars, sessions, pendingRequests >>
      /\ \A c \in 1..MaxStreams : ClientDisconnect(c) =>
            /\ keepAlive' = keepAlive \ {c}
            /\ sseConnections' = sseConnections \ {c}
            /\ frame' = NoFrame
            /\ UNCHANGED << childVars, sessions, pendingRequests, callers,
                            isInitialized >>
      /\ frame' # NoFrame => frame'.connection \in keepAlive'
      /\ sseConnections' \subseteq keepAlive'
    ]_vars

\* Two streams were open, the client of the first disconnected, and a tick
\* has just written the keep-alive frame to the second.
C13_SurvivorKeptAlive ==
  /\ keepAlive = {2}
  /\ sseConnections = {2}
  /\ frame = Frame(2, "keepalive")


\* ---------------------------------------------------------- C14 child exit
\* C14: when the child exits, the bridge sets its ready flag to false and
\* clears its capabilities, a replacement child is never spawned (the only
\* spawn is the one of start()), and from then on GET /health reports not
\* ready and no server identity.
C14_ExitClearsReadiness ==
  [][ /\ ChildExit =>
           ~mcpProcess' /\ ~isInitialized' /\ mcpCapabilities' = "null"
      /\ (~mcpProcess /\ mcpProcess') => phase = "constructed"
      /\ ( /\ ~mcpProcess /\ phase = "listening"
           /\ lastRequest'.method = "GET"
           /\ lastRequest'.path = <<"health">>
           /\ lastHttp'.status = 200 )
         => lastHttp'.result = "healthy, not initialized, server null" ]_vars

\* GET /health after the child has exited: not ready, the server identity of
\* the dead child still reported.
C14_IdentityAfterExit ==
  /\ ~mcpProcess
  /\ ~isInitialized
  /\ lastRequest.method = "GET"
  /\ lastRequest.path = <<"health">>
  /\ lastHttp.status = 200
  /\ lastHttp.result = "healthy, not initialized, server known"

\* ---------------------------------------------------------- C15 exit in flight
\* C15: every entry pending when the child exits is still pending right after
\* the exit event, the exit settles no caller, and each such entry, the
\* startup initialize included, has its own timeout armed by which it will be
\* rejected and removed.
C15_PendingUntilTimeout ==
  [][ ChildExit =>
        /\ pendingRequests' = pendingRequests
        /\ settled' = NoSettlement
        /\ \A id \in pendingRequests' : id \in timers' ]_vars

\* The compliant bridge's startup initialize, pending with no timer after the
\* child has exited.
C15_StartupNeverRejected ==
  /\ variant = "compliant"
  /\ phase = "starting"
  /\ ~mcpProcess
  /\ 1 \in pendingRequests
  /\ timers = {}

\* ---------------------------------------------------------- C16 health
\* The bridge's own state: everything but the record of the last callback's
\* outputs.
bridgeVars ==
  << variant, phase, childVars, requestId, pendingRequests, callers, timers,
     isInitialized, mcpCapabilities, sessionVars, sseVars >>

HealthRequested ==
  /\ lastRequest'.method = "GET"
  /\ FinalSegment(lastRequest'.path) = "health"

HealthAnswered ==
  /\ lastHttp'.status = 200
  /\ lastHttp'.result =
       (IF isInitialized THEN "healthy, initialized, "
        ELSE "healthy, not initialized, ")
       \o (IF mcpCapabilities = "null" THEN "server null" ELSE "server known")
  /\ written' = <<>>
  /\ settled' = NoSettlement
  /\ frame' = NoFrame
  /\ UNCHANGED bridgeVars

\* C16 (as amended): in every state of the compliant bridge (child ready, not
\* ready or exited) a GET whose final path segment is health, whose Origin
\* is absent or allowed and whose MCP-Protocol-Version is absent or
\* supported, is answered 200 with the readiness flag and the last stored
\* identity, whatever its other headers, and changes no bridge state.
C16_HealthAnswered ==
  [][ ( /\ HealthRequested
        /\ lastRequest'.origin \in {"", "http://localhost:3000"}
        /\ lastRequest'.version \in {"", "2025-06-18", "2025-03-26"} )
      => HealthAnswered ]_vars

\* C16 (as stated): for every combination of request headers a GET whose
\* final path segment is health is answered 200 and changes no state.
C16_HealthNeverFails == [][ HealthRequested => HealthAnswered ]_vars

\* GET <prefix>/health answered after the child has exited, with no Accept
\* header, a session id nobody issued and a supported version.
C16_HealthAfterExit ==
  /\ ~mcpProcess
  /\ lastRequest.method = "GET"
  /\ lastRequest.path = <<"api", "health">>
  /\ lastRequest.accept = <<>>
  /\ lastRequest.session = Bogus
  /\ lastRequest.version = "2025-06-18"
  /\ lastRequest.origin = "http://localhost:3000"
  /\ lastHttp.status = 200

\* ---------------------------------------------------------- C17 validation order
OriginFails == lastRequest'.origin \notin {"", "http://localhost:3000"}
VersionFails == lastRequest'.version \notin {"", "2025-06-18", "2025-03-26"}
\* The Accept header a POST needs (both media types) and a GET needs (the
\* event stream).
AcceptFails ==
  \/ /\ lastRequest'.method = "POST"
     /\ ~ ( /\ Includes(lastRequest'.accept, "application/json")
            /\ Includes(lastRequest'.accept, "text/event-stream") )
  \/ /\ lastRequest'.method = "GET"
     /\ ~Includes(lastRequest'.accept, "text/event-stream")

Rejected(status) ==
  /\ lastHttp'.status = status
  /\ written' = <<>>
  /\ settled' = NoSettlement
  /\ frame' = NoFrame
  /\ UNCHANGED bridgeVars

\* C17: a request is checked for origin, then for protocol version, then for
\* the Accept header, and only then routed; the first check that fails
\* decides the response (403, 400, 400), and a request the origin check
\* rejects changes no bridge state and writes nothing to the child.
C17_ValidationOrder ==
  [][ lastRequest' # NoRequest =>
        IF OriginFails THEN Rejected(403)
        ELSE IF VersionFails THEN lastHttp'.status = 400
        ELSE AcceptFails => lastHttp'.status = 400 ]_vars

\* A POST without Accept header that passed the origin and version checks and
\* was routed: 404 for a path the bridge does not serve.
C17_RoutedBeforeAccept ==
  /\ lastRequest.method = "POST"
  /\ lastRequest.path = <<"other">>
  /\ lastRequest.origin = ""
  /\ lastRequest.version = ""
  /\ lastRequest.accept = <<>>
  /\ lastHttp.status = 404

\* ---------------------------------------------------------- C18 protocol version
VersionError == "Invalid or unsupported MCP-Protocol-Version"

\* C18 (as amended): on the compliant bridge a request that passes the origin
\* check, is not an OPTIONS preflight and carries an MCP-Protocol-Version
\* that is not one of the two supported strings is answered 400 by the
\* version check and reaches no route handler (no state changes, nothing is
\* written); a request without the header is processed under the default
\* 2025-03-26, one with a supported value under that value, and neither is
\* rejected by the version check.
C18_VersionValidated ==
  [][ ( /\ lastRequest' # NoRequest
        /\ ~OriginFails
        /\ lastRequest'.method # "OPTIONS" )
      => IF VersionFails
         THEN /\ Rejected(400)
              /\ lastHttp'.error = VersionError
              /\ validateProtocolVersion(lastRequest'.version) = "null"
         ELSE /\ lastHttp'.error # VersionError
              /\ validateProtocolVersion(lastRequest'.version) =
                   (IF lastRequest'.version = "" THEN "2025-03-26"
                    ELSE lastRequest'.version) ]_vars

\* C18 (as stated): every request with an unsupported MCP-Protocol-Version
\* is answered 400.
C18_UnsupportedIs400 ==
  [][ (lastRequest' # NoRequest /\ VersionFails)
      => lastHttp'.status = 400 ]_vars

\* A well-formed POST /mcp from an allowed origin, refused for its version.
C18_RefusedForVersion ==
  /\ lastRequest.method = "POST"
  /\ lastRequest.path = <<"mcp">>
  /\ lastRequest.origin = "http://localhost:3000"
  /\ lastRequest.accept = PlainAccept
  /\ lastRequest.version = "2024-11-05"
  /\ lastHttp.status = 400
  /\ lastHttp.error = VersionError

\* ---------------------------------------------------------- C19 shutdown
\* The timer of shutdown's setTimeout(..., 5000); no request id is 0.
KillTimer == 0

\* C19: on a termination signal every open stream is closed, the session set
\* and the pending-request map are cleared, the child is sent SIGTERM, and
\* the timer that kills it 5000 ms later is left armed.
C19_GracefulShutdown ==
  [][ Shutdown =>
        /\ sseConnections' = {}
        /\ sessions' = {}
        /\ pendingRequests' = {}
        /\ mcpProcess => (written' = <<SIGTERM>> /\ KillTimer \in timers') ]_vars

\* The bridge gone with the child alive and signalled once, a request still
\* in the pending map and no timer left to kill the child.
C19_ExitedWithoutKillTimer ==
  /\ phase = "exited"
  /\ mcpProcess
  /\ written = <<SIGTERM>>
  /\ pendingRequests # {}
  /\ timers = {}

\* ---------------------------------------------------------- C20 request ids
\* C20: the ids the bridge allocates (startup initialize and proxied calls)
\* are 1, 2, 3, ... in allocation order: the counter only moves up and by
\* one, an entry added to pendingRequests and a request line written to the
\* child carry the counter's value and move it, so an id is below the
\* counter once given out and is never given out again, and a new entry
\* never replaces one that is pending.
C20_FreshIds ==
  [][ /\ requestId' \in {requestId, requestId + 1}
      /\ pendingRequests \subseteq 1..(requestId - 1)
      /\ pendingRequests' \subseteq 1..(requestId' - 1)
      /\ pendingRequests' \ pendingRequests \subseteq {requestId}
      /\ (requestId' = requestId + 1) <=> (requestId \in pendingRequests')
      /\ (written' # <<>> /\ written'[1] >= 1)
           => (written' = <<requestId>> /\ requestId' = requestId + 1) ]_vars

\* Every id of the bound allocated, the first settled, two still pending.
C20_ThreeAllocated ==
  /\ requestId = MaxRequestId + 1
  /\ 1 \notin pendingRequests
  /\ Cardinality(pendingRequests) >= 2

\* ---------------------------------------------------------- C21 line framing
\* The bytes delivered so far, and their text.
Delivered == SubSeq(stream, 1, Len(stream) - Len(unread))
CompleteLines(text) == SubSeq(split(text), 1, Len(split(text)) - 1)
Fragment(text) == split(text)[Len(split(text))]

\* C21: however the child's output is split into chunks, the messages
\* dispatched are those of the newline-terminated lines of the bytes
\* delivered that parse as JSON, in order, and what follows the last newline
\* is retained and not dispatched.
C21_LineFraming ==
  /\ dispatched = Dispatch(CompleteLines(toString(Delivered)))
  /\ unread = <<>> => buffer = Fragment(toString(stream))

\* One line holding one two-byte character, delivered in two chunks that
\* part its bytes: the message dispatched holds two replacement characters.
C21_CharacterSplit ==
  /\ stream = <<"C3", "A9", "LF">>
  /\ unread = <<>>
  /\ dispatched = << <<"U+FFFD", "U+FFFD">> >>

\* ---------------------------------------------------------- C22 process unavailable
\* An HTTP request for which an id is allocated, so that a line is to be
\* written, while there is no child or its stdin is not writable.
WriteWithoutChild ==
  /\ lastRequest' # NoRequest
  /\ requestId' = requestId + 1
  /\ ~ProcessAvailable

\* C22: a request that is to be written while the child is absent or its
\* input not writable is answered at once with the internal error -32603,
\* leaves no pending entry, and touches no other request in flight.
C22_ProcessUnavailable ==
  [][ WriteWithoutChild =>
        /\ lastHttp'.code = -32603
        /\ written' = <<>>
        /\ pendingRequests' = pendingRequests
        /\ \A id \in Ids \ {requestId} : callers'[id] = callers[id] ]_vars

\* The compliant bridge after the child's exit: the request was not written,
\* its caller got no answer, and its entry waits for the 30 s timer.
C22_PendingWithoutChild ==
  /\ variant = "compliant"
  /\ ~mcpProcess
  /\ lastRequest.method = "POST"
  /\ lastHttp = NoResponse
  /\ written = <<>>
  /\ (requestId - 1) \in pendingRequests
  /\ (requestId - 1) \in timers

\* ---------------------------------------------------------- C23 readiness and the child
\* C23: in every reachable state the bridge is ready (isInitialized) only if
\* it holds a child process; a response line delivered after the exit event
\* does not make it ready again.
C23_ReadyImpliesChild == isInitialized => mcpProcess

\* The handshake response handled after the exit event: ready, no child.
C23_ReadyWithoutChild ==
  /\ isInitialized
  /\ ~mcpProcess
  /\ settled.ok
  /\ phase # "exited"

\* ---------------------------------------------------------- C24 settled once
\* A callback that is a response line or a timer.
ResponseOrTimer ==
  \/ \E response \in ChildLines : StdoutData(response)
  \/ \E id \in Ids : Timeout(id)

\* The callback has no effect on the correlator.
NoEffect ==
  /\ settled' = NoSettlement
  /\ callers' = callers
  /\ pendingRequests' \subseteq pendingRequests

\* The timer of a proxied call leaves every other call as it was.
OthersUntouched(id) ==
  /\ pendingRequests \ {id} \subseteq pendingRequests'
  /\ \A other \in Ids \ {id} : callers'[other] = callers[other]

\* Only the matching response and the timeout settle a caller, and only one
\* that is pending, whose entry they remove.
SettledByResponseOrTimer ==
  settled' # NoSettlement =>
    /\ ResponseOrTimer
    /\ settled'.id \in pendingRequests \ pendingRequests'
    /\ callers[settled'.id].state = "pending"

\* Whichever of the two comes second finds no entry and does nothing, and a
\* timer never touches another call.
SecondHasNoEffect ==
  /\ \A id \in Ids :
        (Timeout(id) /\ callers[id].kind # "startup") =>
          /\ OthersUntouched(id)
          /\ id \notin pendingRequests => NoEffect
  /\ \A response \in ChildLines :
        (StdoutData(response) /\ response.id \notin pendingRequests) => NoEffect

\* C24: the caller of every allocated id is settled by exactly one of the
\* matching response and the timeout; the second of them finds no
\* pending entry and has no effect, and a timer firing for a settled id
\* removes and rejects no other entry.
C24_SettledOnce == [][ SettledByResponseOrTimer /\ SecondHasNoEffect ]_vars

\* The simple bridge: a caller rejected by neither of them (sendToMCP threw),
\* its entry in the map with no timer.
C24_RejectedByThrow ==
  /\ variant = "simple"
  /\ settled = Settlement(requestId - 1, FALSE, "MCP process not available")
  /\ (requestId - 1) \in pendingRequests
  /\ (requestId - 1) \notin timers

\* ---------------------------------------------------------- C25 one response
\* The HTTP request whose handler awaits the promise of `id`.
InFlight(id) ==
  callers[id].state = "pending" /\ callers[id].kind \in {"request", "initialize"}

\* A request is answered by the callback that receives it or is left in
\* flight under the id allocated for it, never both; another callback
\* writes a response only for the one caller it settles; a caller that was
\* answered stays so.
AnsweredOnce ==
  /\ lastRequest' # NoRequest =>
        (lastHttp' # NoResponse) #
          (requestId' = requestId + 1 /\ callers'[requestId].state = "pending")
  /\ (lastRequest' = NoRequest /\ lastHttp' # NoResponse) =>
        /\ settled'.id \in Ids
        /\ InFlight(settled'.id)
  /\ \A id \in Ids :
        /\ (InFlight(id) /\ callers'[id] # callers[id]) =>
              /\ callers'[id].state = "settled"
              /\ settled'.id = id
              /\ lastHttp' # NoResponse
        /\ callers[id].state = "settled" => callers'[id].state = "settled"

\* C25: every HTTP request that is not a streaming GET gets exactly one
\* response, never two, and gets it eventually whatever the child does:
\* answers, answers with an error, stays silent or exits.
C25_ExactlyOneResponse ==
  /\ [][AnsweredOnce]_vars
  /\ \A id \in Ids : InFlight(id) ~> (callers[id].state = "settled")

\* A request answered by its timer after the child has exited.
C25_AnsweredAfterExit ==
  /\ ~mcpProcess
  /\ phase = "listening"
  /\ settled.value \in {"Request timeout", "MCP request timeout"}
  /\ lastHttp # NoResponse

\* ---------------------------------------------------------- C26 startup ordering
\* The bridge starts to listen in the callback that handles the child's
\* answer (not an error) to the startup initialize, which has id 1.
ListensAfterAnswer ==
  (phase # "listening" /\ phase' = "listening") =>
    /\ phase = "starting"
    /\ \E response \in ChildLines :
         /\ response.id = 1
         /\ response.kind # "error"
         /\ StdoutData(response)

\* A start that is aborted never listens.
AbortIsFinal == phase = "exited" => phase' = "exited"

\* C26: the bridge listens only after the child has answered the startup
\* initialize; with the entry point missing, the handshake rejected or never
\* answered, the start is aborted: it does not hang, and the HTTP server is
\* never started.
C26_StartupOrdering ==
  /\ [][ListensAfterAnswer /\ AbortIsFinal]_vars
  /\ (phase = "starting") ~> (phase \in {"listening", "exited"})

\* The compliant bridge waiting for a child that is alive and silent: the
\* startup initialize is pending and nothing is armed that would end the wait.
C26_WaitingWithoutTimer ==
  /\ variant = "compliant"
  /\ phase = "starting"
  /\ mcpProcess
  /\ Idle
  /\ pendingRequests = {1}
  /\ timers = {}

\* ---------------------------------------------------------- C27 session frame
\* A successful HTTP initialize: the child's answer settles the caller of an
\* initialize, and the response carries the one id added.
InitializeAdds ==
  /\ \E response \in ChildLines : StdoutData(response)
  /\ settled'.ok
  /\ callers[settled'.id].kind = "initialize"
  /\ lastHttp'.status = 200
  /\ lastHttp'.session \notin sessions
  /\ sessions' = sessions \cup {lastHttp'.session}

\* A successful DELETE /mcp: the id of its header is removed.
DeleteRemoves ==
  /\ lastRequest'.method = "DELETE"
  /\ lastRequest'.path = <<"mcp">>
  /\ lastRequest'.session \in sessions
  /\ lastHttp'.status = 200
  /\ sessions' = sessions \ {lastRequest'.session}

ShutdownClears == Shutdown /\ sessions' = {}

\* C27: the session set changes only by a successful HTTP initialize (one id
\* added), a successful DELETE /mcp (that id removed) and shutdown (all
\* removed); the child's exit, a timeout, the opening and closing of a
\* stream and every rejected request leave it as it is.
C27_NoImplicitExpiry ==
  [][ /\ sessions' # sessions =>
           InitializeAdds \/ DeleteRemoves \/ ShutdownClears
      /\ ( \/ ChildExit
           \/ \E id \in Ids : Timeout(id)
           \/ \E connectionId \in 1..MaxConnections :
                ClientDisconnect(connectionId)
           \/ lastRequest'.method = "GET"
           \/ lastHttp'.status >= 400 )
         => sessions' = sessions ]_vars

\* A session that outlived the child it was made with, still accepted.
C27_SessionOutlivesChild ==
  /\ ~mcpProcess
  /\ sessions # {}
  /\ lastRequest.method = "POST"
  /\ lastRequest.session \in sessions
  /\ lastHttp.status = 202

\* ---------------------------------------------------------- C28 readiness and capabilities
\* C28: in every reachable state a ready bridge has capabilities stored, and
\* the bridge becomes ready only in the callback that handles a response,
\* not an error, to a pending request, whose result has a capabilities
\* field; that response's result is what is stored.
C28_ReadyHasCapabilities ==
  [][ /\ isInitialized => mcpCapabilities # "null"
      /\ isInitialized' => mcpCapabilities' # "null"
      /\ (~isInitialized /\ isInitialized') =>
           \E response \in ChildLines :
             /\ StdoutData(response)
             /\ response.kind = "caps"
             /\ response.id \in pendingRequests
             /\ response.id \notin pendingRequests'
      /\ mcpCapabilities' # mcpCapabilities =>
           (isInitialized' /\ mcpCapabilities' = "caps") ]_vars

\* The flag set by a response with capabilities to a proxied request that
\* was pending (not the startup initialize), and its result stored.
C28_ReadyAgain ==
  /\ isInitialized
  /\ mcpCapabilities = "caps"
  /\ settled.ok
  /\ settled.id > 1
  /\ settled.value = "caps"

====
